---- MODULE Spec2Model ----
(***************************************************************************)
(* Model of the county choropleth pipeline                                 *)
(* (src/chloropleth_map_of_ireland.py): the name normalizer, the two       *)
(* loaders, the pandas left merge, the mismatch report, make_bins and the   *)
(* two renderers; of UserDAO (src/user_dao.py) over its SQLite table; of    *)
(* fetch_prose_json (src/wikipedia_word_count.py); and of two concurrent   *)
(* toggle_active requests (src/app.py).                                    *)
(*                                                                         *)
(* Strings are sequences of characters; a character is a one-character     *)
(* TLA+ string, except "RSQUO" (U+2019), "NDASH" (U+2013) and "TAB".       *)
(* Numbers are integers; a boundary sequence is kept as numerators over a  *)
(* common denominator, so that np.quantile's and np.linspace's fractions   *)
(* are exact.                                                              *)
(***************************************************************************)
EXTENDS Integers, Sequences, FiniteSets, TLC

VARIABLES
    pc,             \* position of the running function
    arg_s,          \* norm_county_name: the argument s
    ret_s,          \* norm_county_name(s)
    ret_s2,         \* norm_county_name(norm_county_name(s))
    arg_variant,    \* norm_county_name: another spelling of s
    ret_variant,    \* norm_county_name(that spelling)
    arg_values,     \* make_bins: the Series `values`
    arg_mode,       \* make_bins: mode
    arg_k,          \* make_bins: k
    ret_bins,       \* make_bins: the returned (bins, label)
    csv_rows,       \* rows of CSV_PATH as pd.read_csv returns them
    geo_features,   \* NAME_1 of the features of GEO_PATH, in file order
    wc,             \* main: the frame load_wordcounts returned
    gdf,            \* main: the frame load_geo returned
    merged,         \* main: gdf.merge(wc, on="key", how="left")
    missing_values, \* main: geo_name of the merged rows whose value is NaN
    stdout,         \* the lines main has printed
    bins,           \* main: (bins, scale_label) returned by make_bins
    csv_columns,    \* header row of CSV_PATH (df.columns)
    geo_columns,    \* property names of GEO_PATH (gdf.columns)
    raised,         \* the exception that ended main, "" while none has
    png,            \* the image written to PNG_OUT, NoFile before
    html,           \* the document written to HTML_OUT, NoFile before
    folium,         \* outcome of `import folium`: "untried", "imported", "ImportError"
    table_exists,   \* users.db: whether the table users exists
    users,          \* users.db: the rows of users, by id
    sqlite_sequence,\* users.db: the largest id AUTOINCREMENT has given out
    dao_call,       \* UserDAO: the method called last and its arguments
    dao_ret,        \* UserDAO: what that call returned or raised
    written,        \* history: by id, the User last stored by create or update
    created,        \* history: the ids create has returned, in call order
    requests_build, \* fetch_prose_json: what the installed requests raises for a bad body
    attempt,        \* fetch_prose_json: the attempts made (loop variable)
    last_err,       \* fetch_prose_json: last_err
    fetch_ret,      \* fetch_prose_json: the returned (json, error_message)
    slept,          \* fetch_prose_json: time slept, in units of SLEEP_BETWEEN
    responses,      \* history: what requests.get gave at each attempt
    toggle_id,      \* app.py: the user_id of the toggle requests being handled
    req_pc,         \* toggle_active: by request, its position
    req_u,          \* toggle_active: by request, its local u
    flashed,        \* toggle_active: by request, the message it flashed
    original        \* history: the row of toggle_id when the requests arrived

vars == <<pc, arg_s, ret_s, ret_s2, arg_variant, ret_variant, arg_values, arg_mode, arg_k, ret_bins,
          csv_rows, geo_features, wc, gdf, merged, missing_values, stdout, bins,
          csv_columns, geo_columns, raised, png, html, folium,
          table_exists, users, sqlite_sequence, dao_call, dao_ret, written, created,
          requests_build, attempt, last_err, fetch_ret, slept, responses,
          toggle_id, req_pc, req_u, flashed, original>>

normVars == <<arg_s, ret_s, ret_s2, arg_variant, ret_variant>>
binsVars == <<arg_values, arg_mode, arg_k, ret_bins>>
mainVars == <<csv_rows, geo_features, wc, gdf, merged, missing_values, stdout, bins,
              csv_columns, geo_columns, raised, png, html, folium>>
schemaVars == <<csv_columns, geo_columns>>
renderVars == <<png, html, folium>>
daoVars == <<table_exists, users, sqlite_sequence, dao_call, dao_ret, written, created>>
fetchVars == <<requests_build, attempt, last_err, fetch_ret, slept, responses>>
appVars == <<toggle_id, req_pc, req_u, flashed, original>>

-----------------------------------------------------------------------------
(* Bounds of the model                                                     *)

MaxFrags == 3       \* fragments concatenated into a normalizer input
MaxRun == 9         \* occurrences of one number in a make_bins input
MaxNaN == 1         \* NaN entries in a make_bins input
MaxK == 5           \* largest k given to make_bins
MaxGeo == 2         \* features in the geometry file
MaxRows == 2        \* data rows in the CSV file
MaxCreates == 3     \* calls of UserDAO.create

-----------------------------------------------------------------------------
(* Characters and str methods                                              *)

UPPER == <<"A", "B", "C", "D", "E", "F", "G", "H", "I", "J", "K", "L", "M",
           "N", "O", "P", "Q", "R", "S", "T", "U", "V", "W", "X", "Y", "Z">>
LOWER == <<"a", "b", "c", "d", "e", "f", "g", "h", "i", "j", "k", "l", "m",
           "n", "o", "p", "q", "r", "s", "t", "u", "v", "w", "x", "y", "z">>

IndexIn(c, alphabet) ==
    IF \E i \in 1..Len(alphabet) : alphabet[i] = c
    THEN CHOOSE i \in 1..Len(alphabet) : alphabet[i] = c
    ELSE 0

\* ord(c): the code point, which orders str values in sorted()
ord(c) ==
    IF IndexIn(c, UPPER) > 0 THEN 64 + IndexIn(c, UPPER)
    ELSE IF IndexIn(c, LOWER) > 0 THEN 96 + IndexIn(c, LOWER)
    ELSE IF c = "TAB" THEN 9
    ELSE IF c = " " THEN 32
    ELSE IF c = "'" THEN 39
    ELSE IF c = "," THEN 44
    ELSE IF c = "-" THEN 45
    ELSE IF c = "NDASH" THEN 8211
    ELSE 8217

isspace(c) == c \in {" ", "TAB"}

lower_char(c) == IF IndexIn(c, UPPER) > 0 THEN LOWER[IndexIn(c, UPPER)] ELSE c

\* str.lower()
lower(s) == [i \in 1..Len(s) |-> lower_char(s[i])]

RECURSIVE lstrip(_)
lstrip(s) == IF s # <<>> /\ isspace(Head(s)) THEN lstrip(Tail(s)) ELSE s

RECURSIVE rstrip(_)
rstrip(s) ==
    IF s # <<>> /\ isspace(s[Len(s)]) THEN rstrip(SubSeq(s, 1, Len(s) - 1)) ELSE s

\* str.strip()
strip(s) == rstrip(lstrip(s))

\* str.startswith(prefix)
startswith(s, prefix) ==
    Len(s) >= Len(prefix) /\ SubSeq(s, 1, Len(prefix)) = prefix

\* str.replace(old, new) for one-character old and new
replace(s, old, new) == [i \in 1..Len(s) |-> IF s[i] = old THEN new ELSE s[i]]

\* Python's order on str: lexicographic by code point
RECURSIVE str_lt(_, _)
str_lt(a, b) ==
    IF b = <<>> THEN FALSE
    ELSE IF a = <<>> THEN TRUE
    ELSE IF ord(Head(a)) # ord(Head(b)) THEN ord(Head(a)) < ord(Head(b))
    ELSE str_lt(Tail(a), Tail(b))

-----------------------------------------------------------------------------
(* norm_county_name                                                        *)

STR_county_sp == <<"c", "o", "u", "n", "t", "y", " ">>
STR_kings_county == <<"k", "i", "n", "g", "s", " ", "c", "o", "u", "n", "t", "y">>
STR_queens_county == <<"q", "u", "e", "e", "n", "s", " ", "c", "o", "u", "n", "t", "y">>
STR_offaly == <<"o", "f", "f", "a", "l", "y">>
STR_laois == <<"l", "a", "o", "i", "s">>

\* a lookup in an empty alias table
aliases_get_none(s0) == s0

\* aliases.get(s0, s0)
aliases_get(s0) ==
    IF s0 = STR_kings_county THEN STR_offaly
    ELSE IF s0 = STR_queens_county THEN STR_laois
    ELSE s0

\* s0[7:] when s0.lower() starts with "county "
drop_county_prefix(s0) ==
    IF startswith(lower(s0), STR_county_sp) THEN SubSeq(s0, 8, Len(s0)) ELSE s0

\* s is a str here: the loaders apply it to names read from the files (the
\* `s is None` return of "" is not exercised by these inputs)
norm_county_name(s) ==
    LET s0 == drop_county_prefix(strip(s))
        s1 == lower(strip(replace(replace(s0, "RSQUO", "'"), "NDASH", "-")))
    IN  aliases_get(s1)

-----------------------------------------------------------------------------
(* Names used as inputs                                                    *)

NAME_Offaly == <<"O", "f", "f", "a", "l", "y">>
NAME_Cork == <<"C", "o", "r", "k">>
NAME_County_Offaly == <<"C", "o", "u", "n", "t", "y", " ", "O", "f", "f", "a", "l", "y">>
NAME_Kings_County == <<"K", "i", "n", "g", "s", " ", "C", "o", "u", "n", "t", "y">>
NAME_Queens_County == <<"Q", "u", "e", "e", "n", "s", " ", "C", "o", "u", "n", "t", "y">>
NAME_cork == <<"c", "o", "r", "k">>
NAME_Mayo == <<"M", "a", "y", "o">>
FRAG_County == <<"C", "o", "u", "n", "t", "y", " ">>
FRAG_COUNTY == <<"C", "O", "U", "N", "T", "Y", " ">>

\* pieces a raw name is concatenated from
Fragments ==
    { FRAG_County, FRAG_COUNTY, STR_county_sp, NAME_Kings_County,
      NAME_Queens_County, NAME_Offaly, NAME_cork,
      <<" ">>, <<"TAB">>, <<"O", "RSQUO", "N">>, <<"NDASH">> }

RECURSIVE Concat(_)
Concat(ss) == IF ss = <<>> THEN <<>> ELSE Head(ss) \o Concat(Tail(ss))

SeqsUpTo(S, n) == UNION { [1..m -> S] : m \in 0..n }

NormInputs == { Concat(fs) : fs \in SeqsUpTo(Fragments, MaxFrags) }

\* spellings of a name s that differ from it in letter case, in surrounding
\* whitespace, in a leading "County " prefix, or in the kind of apostrophe
\* and dash
upper_char(c) == IF IndexIn(c, LOWER) > 0 THEN UPPER[IndexIn(c, LOWER)] ELSE c
upper(s) == [i \in 1..Len(s) |-> upper_char(s[i])]
CaseVariants(s) == { upper(s), lower(s) }
SpaceVariants(s) == { <<" ">> \o s, s \o <<" ">>, <<"TAB">> \o s \o <<" ", " ">> }
PrefixVariants(s) == { FRAG_County \o s, FRAG_COUNTY \o s, STR_county_sp \o s }
PunctuationVariants(s) ==
    { replace(replace(s, "RSQUO", "'"), "NDASH", "-"),
      replace(replace(s, "'", "RSQUO"), "-", "NDASH") }
Variants(s) ==
    CaseVariants(s) \cup SpaceVariants(s) \cup PrefixVariants(s) \cup PunctuationVariants(s)

-----------------------------------------------------------------------------
(* Values: a float64 cell is a number or NaN                               *)

NaN == [isna |-> TRUE, v |-> 0]
Num(n) == [isna |-> FALSE, v |-> n]

NoBins == [none |-> TRUE, den |-> 1, num |-> <<>>, label |-> ""]

\* an output file that has not been written
NoFile == [written |-> FALSE]

\* Python's None where an int or a str may stand, and SQL's NULL
None == [none |-> TRUE, n |-> 0, s |-> ""]
PyInt(n) == [none |-> FALSE, n |-> n, s |-> ""]
PyStr(s) == [none |-> FALSE, n |-> 0, s |-> s]

\* the empty function: a table without rows
NoRows == [i \in {} |-> 0]

\* a User: id and email may be None, active is a bool
User(id, name, email, active) ==
    [id |-> id, name |-> name, email |-> email, active |-> active]
NoUser == User(None, "", None, FALSE)

\* a call of a DAO method, and what a call returns: the exception raised
\* ("" for none), the int, the bool and the users returned (get_by_id
\* returns a list here too: empty for None, else the one User)
Call(op, user, user_id) == [op |-> op, user |-> user, user_id |-> user_id]
Return(exc, n, ok, us) == [exc |-> exc, lastrowid |-> n, ok |-> ok, users |-> us]
NoCall == Call("", NoUser, 0)
NoReturn == Return("", 0, FALSE, <<>>)

DaoIdle ==
    /\ table_exists = FALSE /\ users = NoRows /\ sqlite_sequence = 0
    /\ dao_call = NoCall /\ dao_ret = NoReturn
    /\ written = NoRows /\ created = <<>>

\* fetch_prose_json not called: no attempt, last_err None, nothing returned
\* An error message is its fixed prefix, the status code in it, and the text
\* that follows, given by the text it was cut from and its length.
ErrorMessage(prefix, status, detail, len) ==
    [none |-> FALSE, prefix |-> prefix, status |-> status, detail |-> detail, len |-> len]
NoError == [none |-> TRUE, prefix |-> "", status |-> 0, detail |-> "", len |-> 0]
NotReturned == [returned |-> FALSE, json |-> None, error |-> NoError]

FetchIdle ==
    /\ requests_build = "" /\ attempt = 0 /\ last_err = NoError
    /\ fetch_ret = NotReturned /\ slept = 0 /\ responses = <<>>

\* no request is being handled by app.py
AppIdle ==
    /\ toggle_id = 0 /\ req_pc = <<>> /\ req_u = <<>> /\ flashed = <<>>
    /\ original = <<>>

NormIdle ==
    /\ arg_s = <<>> /\ ret_s = <<>> /\ ret_s2 = <<>>
    /\ arg_variant = <<>> /\ ret_variant = <<>>
BinsIdle == arg_values = <<>> /\ arg_mode = "quantile" /\ arg_k = 1 /\ ret_bins = NoBins
MainIdle ==
    /\ csv_rows = <<>> /\ geo_features = <<>> /\ wc = <<>> /\ gdf = <<>>
    /\ merged = <<>> /\ missing_values = <<>> /\ stdout = <<>> /\ bins = NoBins
    /\ csv_columns = <<>> /\ geo_columns = {} /\ raised = ""
    /\ png = NoFile /\ html = NoFile /\ folium = "untried"

-----------------------------------------------------------------------------
(* The normalizer applied once and then to its own result                  *)

InitNorm ==
    /\ pc = "norm_start"
    /\ arg_s \in NormInputs
    /\ ret_s = <<>> /\ ret_s2 = <<>>
    /\ arg_variant = <<>> /\ ret_variant = <<>>
    /\ BinsIdle /\ MainIdle /\ DaoIdle /\ FetchIdle /\ AppIdle

NormCall ==
    /\ pc = "norm_start"
    /\ ret_s' = norm_county_name(arg_s)
    /\ pc' = "norm_once"
    /\ UNCHANGED <<arg_s, ret_s2, arg_variant, ret_variant,
                   binsVars, mainVars, daoVars, fetchVars, appVars>>

NormAgain ==
    /\ pc = "norm_once"
    /\ ret_s2' = norm_county_name(ret_s)
    /\ pc' = "norm_twice"
    /\ UNCHANGED <<arg_s, ret_s, arg_variant, ret_variant,
                   binsVars, mainVars, daoVars, fetchVars, appVars>>

\* the normalizer applied to another spelling of the same name
NormVariant ==
    /\ pc = "norm_once"
    /\ \E v \in Variants(arg_s) :
          /\ arg_variant' = v
          /\ ret_variant' = norm_county_name(v)
    /\ pc' = "norm_variant"
    /\ UNCHANGED <<arg_s, ret_s, ret_s2, binsVars, mainVars, daoVars, fetchVars, appVars>>

NextNorm == NormCall \/ NormAgain \/ NormVariant

SpecNorm == InitNorm /\ [][NextNorm]_vars

-----------------------------------------------------------------------------
(* make_bins                                                               *)

N_QUANTILES == 5

\* a dropna that keeps the NaN entries, as zeros (fillna(0))
dropna_fillna(values) == [i \in 1..Len(values) |-> values[i].v]

\* Series.dropna().values
dropna(values) ==
    LET present == SelectSeq(values, LAMBDA x : ~x.isna)
    IN  [i \in 1..Len(present) |-> present[i].v]

RECURSIVE insort(_, _)
insort(x, s) ==
    IF s = <<>> THEN <<x>>
    ELSE IF x <= Head(s) THEN <<x>> \o s
    ELSE <<Head(s)>> \o insort(x, Tail(s))

\* the ascending order np.quantile puts its data in
RECURSIVE np_sort(_)
np_sort(v) == IF v = <<>> THEN <<>> ELSE insort(Head(v), np_sort(Tail(v)))

SeqRange(s) == { s[i] : i \in 1..Len(s) }

np_min(v) == CHOOSE x \in SeqRange(v) : \A y \in SeqRange(v) : x <= y
np_max(v) == CHOOSE x \in SeqRange(v) : \A y \in SeqRange(v) : x >= y

\* np.quantile(v, j/k), times k: linear interpolation at position (n-1)*j/k
\* of the sorted data (0-based), which is sv[lo] + (h mod k)/k * (sv[hi] - sv[lo])
np_quantile(v, j, k) ==
    LET sv == np_sort(v)
        n == Len(sv)
        h == (n - 1) * j
        lo == h \div k
        hi == IF lo + 1 <= n - 1 THEN lo + 1 ELSE lo
    IN  k * sv[lo + 1] + (h % k) * (sv[hi + 1] - sv[lo + 1])

RECURSIVE SetToSortedSeq(_)
SetToSortedSeq(S) ==
    IF S = {} THEN <<>>
    ELSE LET m == CHOOSE x \in S : \A y \in S : x <= y
         IN  <<m>> \o SetToSortedSeq(S \ {m})

\* a np.unique that sorts and keeps the repeats (np.sort)
np_unique_keep_repeats(a) ==
    LET RECURSIVE ins(_, _)
        ins(x, s) == IF s = <<>> THEN <<x>>
                     ELSE IF x <= Head(s) THEN <<x>> \o s
                     ELSE <<Head(s)>> \o ins(x, Tail(s))
        RECURSIVE srt(_)
        srt(v) == IF v = <<>> THEN <<>> ELSE ins(Head(v), srt(Tail(v)))
    IN  srt(a)

\* np.unique(a): the sorted distinct elements of a
np_unique(a) == SetToSortedSeq(SeqRange(a))

\* the interior quantiles only (qs[1:-1]), times k
quantile_cuts_interior(v, k) == [i \in 1..(k - 1) |-> np_quantile(v, i, k)]

\* np.quantile(v, np.linspace(0, 1, k + 1)), times k
quantile_cuts(v, k) == [i \in 1..(k + 1) |-> np_quantile(v, i - 1, k)]

\* a linspace of k points instead of k + 1 (endpoint left out)
np_linspace_no_endpoint(vmin, vmax, k) ==
    [i \in 1..k |-> k * vmin + (i - 1) * (vmax - vmin)]

\* np.linspace(vmin, vmax, k + 1), times k
np_linspace(vmin, vmax, k) == [i \in 1..(k + 1) |-> k * vmin + (i - 1) * (vmax - vmin)]

\* a degenerate boundary set without the middle point
degenerate_bins_two(vmin, vmax, k) == <<k * (vmin - 1), k * (vmax + 1)>>

\* np.array([vmin - 1, vmin, vmax + 1]), times k
degenerate_bins(vmin, vmax, k) == <<k * (vmin - 1), k * vmin, k * (vmax + 1)>>

\* the fallback of make_bins, also the whole of mode "linear"
linear_bins(v, k) ==
    LET vmin == np_min(v)
        vmax == np_max(v)
    IN  [none |-> FALSE, den |-> k,
         num |-> IF vmin = vmax THEN degenerate_bins(vmin, vmax, k)
                 ELSE np_linspace(vmin, vmax, k),
         label |-> "Linear"]

\* make_bins(values, mode, k): the boundaries are num[i] / den
make_bins(values, mode, k) ==
    LET v == dropna(values)
    IN  IF Len(v) = 0 THEN NoBins
        ELSE IF mode = "quantile" /\ Len(np_unique(quantile_cuts(v, k))) >= 3
             THEN [none |-> FALSE, den |-> k,
                   num |-> np_unique(quantile_cuts(v, k)), label |-> "Quantiles"]
             ELSE linear_bins(v, k)

-----------------------------------------------------------------------------
(* make_bins called on one Series                                          *)

Numbers == <<1, 2, 4>>

Run(x, c) == [i \in 1..c |-> x]

Reverse(s) == [i \in 1..Len(s) |-> s[Len(s) + 1 - i]]

\* c[i] copies of Numbers[i] with nan NaN entries among them, ascending or descending
Series(c, nan, rev) ==
    LET asc == Run(Num(Numbers[1]), c[1]) \o Run(NaN, nan)
               \o Run(Num(Numbers[2]), c[2]) \o Run(Num(Numbers[3]), c[3])
    IN  IF rev THEN Reverse(asc) ELSE asc

BinInputs ==
    { Series(c, nan, rev) :
        c \in [1..3 -> 0..MaxRun], nan \in 0..MaxNaN, rev \in BOOLEAN }

InitBins ==
    /\ pc = "bins_start"
    /\ arg_values \in BinInputs
    /\ arg_mode \in {"quantile", "linear"}
    /\ arg_k \in 1..MaxK
    /\ ret_bins = NoBins
    /\ NormIdle /\ MainIdle /\ DaoIdle /\ FetchIdle /\ AppIdle

MakeBinsCall ==
    /\ pc = "bins_start"
    /\ ret_bins' = make_bins(arg_values, arg_mode, arg_k)
    /\ pc' = "bins_done"
    /\ UNCHANGED <<arg_values, arg_mode, arg_k, normVars, mainVars, daoVars, fetchVars, appVars>>

NextBins == MakeBinsCall

SpecBins == InitBins /\ [][NextBins]_vars

StrictlyIncreasing(s) == \A i \in 1..(Len(s) - 1) : s[i] < s[i + 1]

-----------------------------------------------------------------------------
(* load_wordcounts, load_geo and the merge of main                         *)

DIGITS == <<"0", "1", "2", "3", "4", "5", "6", "7", "8", "9">>

is_digits(cell) ==
    cell # <<>> /\ \A i \in 1..Len(cell) : IndexIn(cell[i], DIGITS) > 0

RECURSIVE int_value(_)
int_value(cell) ==
    IF cell = <<>> THEN 0
    ELSE 10 * int_value(SubSeq(cell, 1, Len(cell) - 1))
         + (IndexIn(cell[Len(cell)], DIGITS) - 1)

\* pd.to_numeric(cell, errors="coerce") on the text of one cell
to_numeric(cell) == IF is_digits(cell) THEN Num(int_value(cell)) ELSE NaN

\* a load_wordcounts that drops the rows whose cell is not a number (dropna)
load_wordcounts_dropna(rows) ==
    LET good == SelectSeq(rows, LAMBDA r : ~to_numeric(r.cell).isna)
    IN  [i \in 1..Len(good) |->
            [county |-> good[i].county,
             value |-> to_numeric(good[i].cell),
             key |-> norm_county_name(good[i].county)]]

\* load_wordcounts: one row (county, value, key) per CSV row, in file order
load_wordcounts(rows) ==
    [i \in 1..Len(rows) |->
        [county |-> rows[i].county,
         value |-> to_numeric(rows[i].cell),
         key |-> norm_county_name(rows[i].county)]]

\* load_geo: one row (geo_name, geometry, key) per feature, in file order
load_geo(features) ==
    [i \in 1..Len(features) |->
        [geo_name |-> features[i].NAME_1,
         geometry |-> features[i].geometry,
         key |-> norm_county_name(features[i].NAME_1)]]

\* a left row that matches no right row, with 0 in place of NaN (fillna(0))
left_only_row_zero(l) ==
    [geo_name |-> l.geo_name, geometry |-> l.geometry, key |-> l.key, value |-> Num(0)]

\* the merged row of a left row that matches no right row
left_only_row(l) ==
    [geo_name |-> l.geo_name, geometry |-> l.geometry, key |-> l.key, value |-> NaN]

\* the merged rows of one left row: one per right row with its key, in the
\* right frame's order, or the left row alone with NaN
merge_left_row(l, right) ==
    LET matches == SelectSeq(right, LAMBDA w : w.key = l.key)
    IN  IF matches = <<>> THEN <<left_only_row(l)>>
        ELSE [j \in 1..Len(matches) |->
                [geo_name |-> l.geo_name, geometry |-> l.geometry,
                 key |-> l.key, value |-> matches[j].value]]

\* an outer merge: the left merge, then the right rows no left row matches
merge_outer(left, right) ==
    Concat([i \in 1..Len(left) |-> merge_left_row(left[i], right)])
    \o LET extra == SelectSeq(right,
                       LAMBDA w : \A i \in 1..Len(left) : left[i].key # w.key)
       IN  [j \in 1..Len(extra) |->
               [geo_name |-> extra[j].county, geometry |-> 0,
                key |-> extra[j].key, value |-> extra[j].value]]

\* left.merge(right[["key", "value"]], on="key", how="left")
merge(left, right) ==
    Concat([i \in 1..Len(left) |-> merge_left_row(left[i], right)])

-----------------------------------------------------------------------------
(* The report of main                                                      *)

SEP == <<",", " ">>

\* sep.join(items)
RECURSIVE str_join(_, _)
str_join(sep, items) ==
    IF items = <<>> THEN <<>>
    ELSE IF Len(items) = 1 THEN items[1]
    ELSE items[1] \o sep \o str_join(sep, Tail(items))

\* sorted(set(names))
RECURSIVE sorted_set(_)
sorted_set(S) ==
    IF S = {} THEN <<>>
    ELSE LET m == CHOOSE x \in S : \A y \in S \ {x} : str_lt(x, y)
         IN  <<m>> \o sorted_set(S \ {m})

\* merged.loc[merged["value"].isna(), "geo_name"].tolist()
isna_geo_names(frame) ==
    LET rows == SelectSeq(frame, LAMBDA r : r.value.isna)
    IN  [i \in 1..Len(rows) |-> rows[i].geo_name]

\* the names line without the sort: ", ".join(missing_values)
missing_line_unsorted(names) == str_join(SEP, names)

\* ", ".join(sorted(set(missing_values)))
missing_line(names) == str_join(SEP, sorted_set(SeqRange(names)))

\* merged["geo_name"].nunique()
nunique_geo_name(frame) == Cardinality({ frame[i].geo_name : i \in 1..Len(frame) })

-----------------------------------------------------------------------------
(* The schema checks of the loaders                                        *)

STR_county == <<"c", "o", "u", "n", "t", "y">>
STR_prosewords == <<"p", "r", "o", "s", "e", "w", "o", "r", "d", "s">>
STR_words == <<"w", "o", "r", "d", "s">>

COUNTY_NAME_FIELD == "NAME_1"

\* cols = {c.lower(): c for c in df.columns}; cols.get(name) is not None
has_column(columns, name) == \E i \in 1..Len(columns) : lower(columns[i]) = name

\* a check that raises only when both columns are missing (`and` for `or`)
columns_missing_both(columns) ==
    /\ ~has_column(columns, STR_county)
    /\ ~(has_column(columns, STR_prosewords) \/ has_column(columns, STR_words))

\* county_col is None or words_col is None
columns_missing(columns) ==
    \/ ~has_column(columns, STR_county)
    \/ ~(has_column(columns, STR_prosewords) \/ has_column(columns, STR_words))

\* county_field not in gdf.columns
field_missing(columns, county_field) == county_field \notin columns

-----------------------------------------------------------------------------
(* The two renderers                                                       *)

NEUTRAL == "#f0f0f0"

\* a colour: a hex literal, or the viridis colormap at position num / den
Hex(h) == [hex |-> h]
Viridis(n, d) == [viridis |-> <<n, d>>]

\* vmin, vmax of the present values; (0, 1) when there is none
value_range(frame) ==
    LET vals == dropna([i \in 1..Len(frame) |-> frame[i].value])
    IN  IF Len(vals) = 0 THEN <<0, 1>> ELSE <<np_min(vals), np_max(vals)>>

\* GeoDataFrame.plot(column="value", cmap="viridis", missing_kwds={...}): a
\* NaN row is drawn with missing_kwds, any other row with the colormap at the
\* value's position between the least and the largest value
static_patch(row, range) ==
    IF row.value.isna
    THEN [geometry |-> row.geometry, fill |-> Hex(NEUTRAL), hatch |-> "...", label |-> "No data"]
    ELSE [geometry |-> row.geometry,
          fill |-> Viridis(row.value.v - range[1], range[2] - range[1]),
          hatch |-> "", label |-> ""]

\* the "value" property of a feature of merged.to_json(): NaN becomes null
json_value(x) == [null |-> x.isna, v |-> x.v]

\* a color_for that reads a missing value as 0 (`v or 0`)
color_for_zero(v, vmin, vmax) ==
    LET n == IF v.null THEN 0 ELSE v.v
    IN  IF vmin = vmax THEN Viridis(1, 2) ELSE Viridis(n - vmin, vmax - vmin)

\* color_for(v), with the vmin and vmax it closes over
color_for(v, vmin, vmax) ==
    IF v.null THEN Hex(NEUTRAL)
    ELSE IF vmin = vmax THEN Viridis(1, 2)
    ELSE Viridis(v.v - vmin, vmax - vmin)

\* the feature folium draws for one row: style_function and the tooltip fields
interactive_feature(row, range) ==
    [geometry |-> row.geometry,
     fillColor |-> color_for(json_value(row.value), range[1], range[2]),
     tooltip |-> [County |-> row.geo_name, Prose_words |-> json_value(row.value)]]

-----------------------------------------------------------------------------
(* main                                                                    *)

NAME_1S == { NAME_Offaly, NAME_Cork }
Counties == { NAME_County_Offaly, NAME_Kings_County, NAME_cork, NAME_Mayo }
Cells == { <<"7">>, <<"1", "2">>, <<"n", "/", "a">> }

NAME_Laois == <<"L", "a", "o", "i", "s">>
HDR_County == <<"C", "o", "u", "n", "t", "y">>
HDR_ProseWords == <<"P", "r", "o", "s", "e", "W", "o", "r", "d", "s">>
HDR_PageTitle == <<"P", "a", "g", "e", "T", "i", "t", "l", "e">>
HDR_Error == <<"E", "r", "r", "o", "r">>
HDR_county == <<"c", "o", "u", "n", "t", "y">>
HDR_WORDS == <<"W", "O", "R", "D", "S">>
HDR_Name == <<"N", "a", "m", "e">>

\* the header the scraper writes, and the properties of the GADM file
ScraperColumns == <<HDR_County, HDR_ProseWords, HDR_PageTitle, HDR_Error>>
GadmColumns == { "GID_1", "NAME_1", "geometry" }

\* headers and property sets with and without the required names
HeaderVariants ==
    { ScraperColumns,
      <<HDR_county, HDR_WORDS>>,
      <<HDR_County, HDR_PageTitle, HDR_Error>>,
      <<HDR_ProseWords, HDR_PageTitle>>,
      <<HDR_Name, HDR_WORDS>>,
      <<>> }
PropertyVariants == { GadmColumns, { "GID_1", "geometry" }, { "name_1", "geometry" } }

\* the features of a geometry file: a name and a polygon each, the polygon
\* identified by the feature's position in the file
Features(names) == [i \in 1..Len(names) |-> [NAME_1 |-> names[i], geometry |-> i]]

\* the input files: the counties of the join, the historical names, and the
\* files whose schema varies
Init ==
    /\ pc = "main_start"
    /\ \/ /\ csv_columns = ScraperColumns /\ geo_columns = GadmColumns
          /\ geo_features \in { Features(names) : names \in SeqsUpTo(NAME_1S, MaxGeo) }
          /\ csv_rows \in SeqsUpTo([county : Counties, cell : Cells], MaxRows)
       \/ /\ csv_columns = ScraperColumns /\ geo_columns = GadmColumns
          /\ geo_features \in { Features(names) :
                                  names \in SeqsUpTo({NAME_Offaly, NAME_Laois}, MaxGeo) }
          /\ csv_rows \in SeqsUpTo([county : {NAME_Kings_County, NAME_Queens_County},
                                    cell : Cells], MaxRows)
       \/ /\ csv_columns \in HeaderVariants /\ geo_columns \in PropertyVariants
          /\ geo_features \in { Features(names) : names \in SeqsUpTo(NAME_1S, 1) }
          /\ csv_rows \in SeqsUpTo([county : {NAME_County_Offaly}, cell : Cells], 1)
    /\ wc = <<>> /\ gdf = <<>> /\ merged = <<>> /\ missing_values = <<>>
    /\ stdout = <<>> /\ bins = NoBins
    /\ raised = "" /\ png = NoFile /\ html = NoFile /\ folium = "untried"
    /\ NormIdle /\ BinsIdle /\ DaoIdle /\ FetchIdle /\ AppIdle

\* load_wordcounts(CSV_PATH): raises ValueError when a column is missing
LoadWordcounts ==
    /\ pc = "main_start"
    /\ IF columns_missing(csv_columns)
       THEN /\ raised' = "ValueError"
            /\ pc' = "raised"
            /\ wc' = wc
       ELSE /\ wc' = load_wordcounts(csv_rows)
            /\ pc' = "wc_loaded"
            /\ raised' = raised
    /\ UNCHANGED <<csv_rows, geo_features, gdf, merged, missing_values, stdout, bins,
                   schemaVars, renderVars, normVars, binsVars, daoVars, fetchVars, appVars>>

\* load_geo(GEO_PATH, COUNTY_NAME_FIELD): raises ValueError when the field is missing
LoadGeo ==
    /\ pc = "wc_loaded"
    /\ IF field_missing(geo_columns, COUNTY_NAME_FIELD)
       THEN /\ raised' = "ValueError"
            /\ pc' = "raised"
            /\ gdf' = gdf
       ELSE /\ gdf' = load_geo(geo_features)
            /\ pc' = "geo_loaded"
            /\ raised' = raised
    /\ UNCHANGED <<csv_rows, geo_features, wc, merged, missing_values, stdout, bins,
                   schemaVars, renderVars, normVars, binsVars, daoVars, fetchVars, appVars>>

Merge ==
    /\ pc = "geo_loaded"
    /\ merged' = merge(gdf, wc)
    /\ pc' = "merged"
    /\ UNCHANGED <<csv_rows, geo_features, wc, gdf, missing_values, stdout, bins,
                   schemaVars, raised, renderVars, normVars, binsVars, daoVars, fetchVars, appVars>>

SanityInfo ==
    /\ pc = "merged"
    /\ stdout' = Append(stdout, [line |-> "polygons_found", n |-> nunique_geo_name(merged)])
    /\ pc' = "counted"
    /\ UNCHANGED <<csv_rows, geo_features, wc, gdf, merged, missing_values, bins,
                   schemaVars, raised, renderVars, normVars, binsVars, daoVars, fetchVars, appVars>>

ReportMissing ==
    /\ pc = "counted"
    /\ missing_values' = isna_geo_names(merged)
    /\ stdout' = IF isna_geo_names(merged) # <<>>
                 THEN stdout \o << [line |-> "no_wordcount_header"],
                                   [line |-> "names", text |-> missing_line(isna_geo_names(merged))],
                                   [line |-> "blank"] >>
                 ELSE stdout
    /\ pc' = "reported"
    /\ UNCHANGED <<csv_rows, geo_features, wc, gdf, merged, bins,
                   schemaVars, raised, renderVars, normVars, binsVars, daoVars, fetchVars, appVars>>

DetermineBins ==
    /\ pc = "reported"
    /\ bins' = make_bins([i \in 1..Len(merged) |-> merged[i].value], "quantile", N_QUANTILES)
    /\ pc' = "binned"
    /\ UNCHANGED <<csv_rows, geo_features, wc, gdf, merged, missing_values, stdout,
                   schemaVars, raised, renderVars, normVars, binsVars, daoVars, fetchVars, appVars>>

\* the static PNG: the title, merged.plot(...) and plt.savefig(PNG_OUT)
SaveStatic ==
    /\ pc = "binned"
    /\ png' = [written |-> TRUE,
               scale_label |-> bins.label,
               patches |-> [i \in 1..Len(merged) |->
                               static_patch(merged[i], value_range(merged))]]
    /\ stdout' = Append(stdout, [line |-> "saved_static"])
    /\ pc' = "static_saved"
    /\ UNCHANGED <<csv_rows, geo_features, wc, gdf, merged, missing_values, bins,
                   schemaVars, raised, html, folium, normVars, binsVars, daoVars, fetchVars, appVars>>

\* `import folium` stopped by an ImportError that nothing catches
ImportFoliumUncaught ==
    /\ pc = "static_saved"
    /\ \E installed \in BOOLEAN :
          IF installed
          THEN /\ folium' = "imported"
               /\ pc' = "folium_imported"
               /\ raised' = raised
          ELSE /\ folium' = "ImportError"
               /\ pc' = "raised"
               /\ raised' = "ImportError"
    /\ UNCHANGED <<csv_rows, geo_features, wc, gdf, merged, missing_values, stdout, bins,
                   schemaVars, png, html, normVars, binsVars, daoVars, fetchVars, appVars>>

\* try: import folium ... except ImportError: print the notice and return
ImportFolium ==
    /\ pc = "static_saved"
    /\ \E installed \in BOOLEAN :
          IF installed
          THEN /\ folium' = "imported"
               /\ pc' = "folium_imported"
               /\ stdout' = stdout
          ELSE /\ folium' = "ImportError"
               /\ pc' = "done"
               /\ stdout' = Append(stdout, [line |-> "folium_not_installed"])
    /\ UNCHANGED <<csv_rows, geo_features, wc, gdf, merged, missing_values, bins,
                   schemaVars, raised, png, html, normVars, binsVars, daoVars, fetchVars, appVars>>

\* the interactive HTML: folium.GeoJson(merged.to_json(), style_function, tooltip)
\* and m.save(HTML_OUT), which evaluates style_function once per feature
SaveInteractive ==
    /\ pc = "folium_imported"
    /\ html' = [written |-> TRUE,
                layer_control |-> TRUE,
                features |-> [i \in 1..Len(merged) |->
                                 interactive_feature(merged[i], value_range(merged))]]
    /\ stdout' = Append(stdout, [line |-> "saved_interactive"])
    /\ pc' = "done"
    /\ UNCHANGED <<csv_rows, geo_features, wc, gdf, merged, missing_values, bins,
                   schemaVars, raised, png, folium, normVars, binsVars, daoVars, fetchVars, appVars>>

Next ==
    \/ LoadWordcounts
    \/ LoadGeo
    \/ Merge
    \/ SanityInfo
    \/ ReportMissing
    \/ DetermineBins
    \/ SaveStatic
    \/ ImportFolium
    \/ SaveInteractive

Spec == Init /\ [][Next]_vars

-----------------------------------------------------------------------------
(* UserDAO (src/user_dao.py): the statements it executes                   *)

\* int(user.active) and bool(row["active"])
int_of_bool(b) == IF b THEN 1 ELSE 0
bool_of_int(n) == n # 0

\* params that bind "" where user.email is None (`user.email or ""`)
create_params_blank_email(user) ==
    [name |-> user.name,
     email |-> IF user.email.none THEN PyStr("") ELSE user.email,
     active |-> int_of_bool(user.active)]

\* params = (user.name, user.email, int(user.active)); None binds to NULL
create_params(user) ==
    [name |-> user.name, email |-> user.email, active |-> int_of_bool(user.active)]

\* params = (user.name, user.email, int(user.active), user.id) without the id
update_params(user) ==
    [name |-> user.name, email |-> user.email, active |-> int_of_bool(user.active)]

\* a table with the row `row` at `id`, and a table without the row at `id`
WithRow(rows, id, row) ==
    [x \in DOMAIN rows \cup {id} |-> IF x = id THEN row ELSE rows[x]]
WithoutRow(rows, id) == [x \in DOMAIN rows \ {id} |-> rows[x]]

MaxId(rows) == IF DOMAIN rows = {} THEN 0 ELSE CHOOSE x \in DOMAIN rows :
                                                  \A y \in DOMAIN rows : y <= x

\* the INSERT into a table whose id is INTEGER PRIMARY KEY only: the new id
\* is one more than the largest id in the table
sql_insert_rowid(rows, seq, params) ==
    LET id == MaxId(rows) + 1
    IN  [users |-> WithRow(rows, id, params), sqlite_sequence |-> seq, lastrowid |-> id]

\* INSERT INTO users (name, email, active) VALUES (?, ?, ?) with id INTEGER
\* PRIMARY KEY AUTOINCREMENT: the new id is one more than the largest id the
\* table has ever held, which sqlite_sequence records
sql_insert(rows, seq, params) ==
    LET id == (IF MaxId(rows) > seq THEN MaxId(rows) ELSE seq) + 1
    IN  [users |-> WithRow(rows, id, params), sqlite_sequence |-> id, lastrowid |-> id]

\* SELECT id, name, email, active FROM users WHERE id = ?, fetchone():
\* the rows found are at most one
sql_select_by_id(rows, id) ==
    IF id \in DOMAIN rows THEN << [id |-> id, row |-> rows[id]] >> ELSE <<>>

\* SELECT id, name, email, active FROM users ORDER BY id, fetchall()
sql_select_all(rows) ==
    LET ids == SetToSortedSeq(DOMAIN rows)
    IN  [i \in 1..Len(ids) |-> [id |-> ids[i], row |-> rows[ids[i]]]]

\* INSERT OR REPLACE in place of the UPDATE
sql_update_upsert(rows, params, id) ==
    [users |-> WithRow(rows, id, params), rowcount |-> 1]

\* UPDATE users SET name = ?, email = ?, active = ? WHERE id = ?
sql_update(rows, params, id) ==
    IF id \in DOMAIN rows
    THEN [users |-> [rows EXCEPT ![id] = params], rowcount |-> 1]
    ELSE [users |-> rows, rowcount |-> 0]

\* DELETE FROM users without the WHERE
sql_delete_unfiltered(rows, id) ==
    [users |-> NoRows, rowcount |-> Cardinality(DOMAIN rows)]

\* DELETE FROM users WHERE id = ?
sql_delete(rows, id) ==
    IF id \in DOMAIN rows
    THEN [users |-> WithoutRow(rows, id), rowcount |-> 1]
    ELSE [users |-> rows, rowcount |-> 0]

\* _row_to_user(row)
row_to_user(r) ==
    User(PyInt(r.id), r.row.name, r.row.email, bool_of_int(r.row.active))

-----------------------------------------------------------------------------
(* UserDAO: its methods called in any order on one database file           *)

NAME_Mary == "Mary O'Sullivan"

\* the users given to create and update, and the ids given to the methods
UserValues ==
    { User(None, "Alice", PyStr("alice@example.com"), TRUE),
      User(None, "NullEmail", None, FALSE),
      User(None, NAME_Mary, None, TRUE) }
IdArgs == 1..MaxCreates
WithId(user, id) == User(id, user.name, user.email, user.active)

\* sqlite3.OperationalError: no such table: users
NoSuchTable == Return("OperationalError", 0, FALSE, <<>>)

otherVars == <<pc, normVars, binsVars, mainVars, fetchVars, appVars>>
otherVarsOfApp == <<pc, normVars, binsVars, mainVars, fetchVars>>

InitDAO ==
    /\ pc = "dao"
    /\ DaoIdle
    /\ NormIdle /\ BinsIdle /\ MainIdle /\ FetchIdle /\ AppIdle

\* a create_table that drops the table first (DROP TABLE IF EXISTS users)
CreateTableDropFirst ==
    /\ table_exists' = TRUE
    /\ users' = NoRows
    /\ sqlite_sequence' = 0
    /\ dao_call' = Call("create_table", NoUser, 0)
    /\ dao_ret' = NoReturn
    /\ UNCHANGED <<written, created, otherVars>>

\* CREATE TABLE IF NOT EXISTS users (...): nothing happens to a table that is there
CreateTable ==
    /\ table_exists' = TRUE
    /\ dao_call' = Call("create_table", NoUser, 0)
    /\ dao_ret' = NoReturn
    /\ UNCHANGED <<users, sqlite_sequence, written, created, otherVars>>

\* create ignores user.id: the INSERT names the other three columns only
Create ==
    /\ Len(created) < MaxCreates
    /\ \E v \in UserValues, id \in {None, PyInt(1)} :
          LET user == WithId(v, id)
              r == sql_insert(users, sqlite_sequence, create_params(user))
          IN  /\ dao_call' = Call("create", user, 0)
              /\ IF table_exists
                 THEN /\ users' = r.users
                      /\ sqlite_sequence' = r.sqlite_sequence
                      /\ dao_ret' = Return("", r.lastrowid, FALSE, <<>>)
                      /\ written' = WithRow(written, r.lastrowid,
                                            WithId(user, PyInt(r.lastrowid)))
                      /\ created' = Append(created, r.lastrowid)
                 ELSE /\ dao_ret' = NoSuchTable
                      /\ UNCHANGED <<users, sqlite_sequence, written, created>>
    /\ UNCHANGED <<table_exists, otherVars>>

GetById ==
    /\ \E user_id \in IdArgs :
          LET found == sql_select_by_id(users, user_id)
          IN  /\ dao_call' = Call("get_by_id", NoUser, user_id)
              /\ dao_ret' = IF table_exists
                            THEN Return("", 0, FALSE,
                                        [i \in 1..Len(found) |-> row_to_user(found[i])])
                            ELSE NoSuchTable
    /\ UNCHANGED <<table_exists, users, sqlite_sequence, written, created, otherVars>>

GetAll ==
    /\ dao_call' = Call("get_all", NoUser, 0)
    /\ dao_ret' = IF table_exists
                  THEN LET rows == sql_select_all(users)
                       IN  Return("", 0, FALSE, [i \in 1..Len(rows) |-> row_to_user(rows[i])])
                  ELSE NoSuchTable
    /\ UNCHANGED <<table_exists, users, sqlite_sequence, written, created, otherVars>>

\* update raises ValueError for user.id None before it connects
Update ==
    /\ \E v \in UserValues, id \in {None} \cup { PyInt(n) : n \in IdArgs } :
          LET user == WithId(v, id)
              r == sql_update(users, update_params(user), user.id.n)
          IN  /\ dao_call' = Call("update", user, 0)
              /\ IF user.id.none
                 THEN /\ dao_ret' = Return("ValueError", 0, FALSE, <<>>)
                      /\ UNCHANGED <<users, written>>
                 ELSE IF table_exists
                 THEN /\ users' = r.users
                      /\ dao_ret' = Return("", 0, r.rowcount > 0, <<>>)
                      /\ written' = IF r.rowcount > 0
                                    THEN WithRow(written, user.id.n, user)
                                    ELSE written
                 ELSE /\ dao_ret' = NoSuchTable
                      /\ UNCHANGED <<users, written>>
    /\ UNCHANGED <<table_exists, sqlite_sequence, created, otherVars>>

Delete ==
    /\ \E user_id \in IdArgs :
          LET r == sql_delete(users, user_id)
          IN  /\ dao_call' = Call("delete", NoUser, user_id)
              /\ IF table_exists
                 THEN /\ users' = r.users
                      /\ dao_ret' = Return("", 0, r.rowcount > 0, <<>>)
                      /\ written' = IF r.rowcount > 0
                                    THEN WithoutRow(written, user_id)
                                    ELSE written
                 ELSE /\ dao_ret' = NoSuchTable
                      /\ UNCHANGED <<users, written>>
    /\ UNCHANGED <<table_exists, sqlite_sequence, created, otherVars>>

NextDAO ==
    \/ CreateTable
    \/ Create
    \/ GetById
    \/ GetAll
    \/ Update
    \/ Delete

SpecDAO == InitDAO /\ [][NextDAO]_vars

-----------------------------------------------------------------------------
(* app.py: two toggle_active requests handled at the same time. Each DAO   *)
(* call opens its own connection and executes one statement, so the calls  *)
(* of the two requests interleave call by call.                            *)

Requests == {1, 2}

\* the table after create was called for each user of vs, in order
RECURSIVE created_rows(_)
created_rows(vs) ==
    IF vs = <<>> THEN [users |-> NoRows, sqlite_sequence |-> 0, lastrowid |-> 0]
    ELSE LET before == created_rows(SubSeq(vs, 1, Len(vs) - 1))
         IN  sql_insert(before.users, before.sqlite_sequence, create_params(vs[Len(vs)]))

\* the database holds one or two users, created in this order; both requests
\* name the same id, which is there or not
InitToggle ==
    /\ pc = "app"
    /\ \E vs \in [1..1 -> UserValues] \cup [1..2 -> UserValues] :
          LET db == created_rows(vs)
          IN  /\ table_exists = TRUE
              /\ users = db.users
              /\ sqlite_sequence = db.sqlite_sequence
              /\ dao_call = Call("create", vs[Len(vs)], 0)
              /\ dao_ret = Return("", db.lastrowid, FALSE, <<>>)
              /\ written = [id \in 1..Len(vs) |-> WithId(vs[id], PyInt(id))]
              /\ created = [id \in 1..Len(vs) |-> id]
    /\ toggle_id \in 1..2
    /\ req_pc = [r \in Requests |-> "start"]
    /\ req_u = [r \in Requests |-> NoUser]
    /\ flashed = [r \in Requests |-> ""]
    /\ original = sql_select_by_id(users, toggle_id)
    /\ NormIdle /\ BinsIdle /\ MainIdle /\ FetchIdle

\* u = dao.get_by_id(user_id); if not u: flash and redirect
ToggleGet(r) ==
    /\ req_pc[r] = "start"
    /\ LET found == sql_select_by_id(users, toggle_id)
           us == [i \in 1..Len(found) |-> row_to_user(found[i])]
       IN  /\ dao_call' = Call("get_by_id", NoUser, toggle_id)
           /\ dao_ret' = Return("", 0, FALSE, us)
           /\ IF us = <<>>
              THEN /\ flashed' = [flashed EXCEPT ![r] = "User not found."]
                   /\ req_pc' = [req_pc EXCEPT ![r] = "done"]
                   /\ req_u' = req_u
              ELSE /\ req_u' = [req_u EXCEPT ![r] = us[1]]
                   /\ req_pc' = [req_pc EXCEPT ![r] = "got"]
                   /\ flashed' = flashed
    /\ UNCHANGED <<table_exists, users, sqlite_sequence, written, created,
                   toggle_id, original, otherVarsOfApp>>

\* u.active = not u.active; dao.update(u); flash and redirect
ToggleUpdate(r) ==
    /\ req_pc[r] = "got"
    /\ LET u == User(req_u[r].id, req_u[r].name, req_u[r].email, ~req_u[r].active)
           res == sql_update(users, update_params(u), u.id.n)
       IN  /\ req_u' = [req_u EXCEPT ![r] = u]
           /\ dao_call' = Call("update", u, 0)
           /\ dao_ret' = Return("", 0, res.rowcount > 0, <<>>)
           /\ users' = res.users
           /\ written' = IF res.rowcount > 0 THEN WithRow(written, u.id.n, u) ELSE written
    /\ flashed' = [flashed EXCEPT ![r] = "User updated."]
    /\ req_pc' = [req_pc EXCEPT ![r] = "done"]
    /\ UNCHANGED <<table_exists, sqlite_sequence, created,
                   toggle_id, original, otherVarsOfApp>>

NextToggle == \E r \in Requests : ToggleGet(r) \/ ToggleUpdate(r)

SpecToggle == InitToggle /\ [][NextToggle]_vars

-----------------------------------------------------------------------------
(* fetch_prose_json (src/wikipedia_word_count.py)                          *)

RETRIES == 3
DETAIL_CHARS == 200

\* what requests.get gives: a response (status code, body text, and whether
\* the body is JSON) or a requests.RequestException
HttpResponse(status, text, len, is_json) ==
    [exception |-> "", status |-> status, text |-> text, len |-> len, is_json |-> is_json]
RequestException(e, len) ==
    [exception |-> e, status |-> 0, text |-> e, len |-> len, is_json |-> FALSE]

Outcomes ==
    { HttpResponse(200, "{words: 5120}", 13, TRUE),
      HttpResponse(200, "<html>Maintenance</html>", 24, FALSE),
      HttpResponse(404, "{error: not found}", 18, TRUE),
      HttpResponse(429, "Too Many Requests", 17, FALSE),
      HttpResponse(503, "<html>long error page</html>", 5000, FALSE),
      RequestException("ConnectTimeout", 14),
      RequestException("ConnectionError", 15) }

\* r.text[:200]
text_head(len) == IF len < DETAIL_CHARS THEN len ELSE DETAIL_CHARS

\* f"HTTP {r.status_code}: {r.text[:200]}" and f"Request error: {e}"
http_error(r) == ErrorMessage("HTTP", r.status, r.text, text_head(r.len))
request_error(r) == ErrorMessage("Request error", 0, r.text, r.len)
NOT_FOUND == ErrorMessage("404 Not Found", 0, "", 0)
UNKNOWN_ERROR == ErrorMessage("Unknown error", 0, "", 0)

\* a returned (json, error_message)
FetchResult(json, error) == [returned |-> TRUE, json |-> json, error |-> error]

\* the installed requests: since 2.27 Response.json() raises a JSONDecodeError
\* that is a RequestException; before, a ValueError that is not
InitFetch ==
    /\ pc = "fetch_loop"
    /\ requests_build \in {"JSONDecodeError is a RequestException",
                           "JSONDecodeError is a ValueError"}
    /\ attempt = 0 /\ last_err = NoError
    /\ fetch_ret = NotReturned /\ slept = 0 /\ responses = <<>>
    /\ NormIdle /\ BinsIdle /\ MainIdle /\ DaoIdle /\ AppIdle

\* one pass of the loop body: requests.get, the branch on the status code
\* (r.json() is called inside the try), the except clause, and the sleep
FetchAttempt ==
    /\ pc = "fetch_loop"
    /\ attempt < RETRIES
    /\ \E r \in Outcomes :
          /\ responses' = Append(responses, r)
          /\ attempt' = attempt + 1
          /\ IF r.exception # ""
             THEN /\ last_err' = request_error(r)
                  /\ slept' = slept + (attempt + 1)
                  /\ UNCHANGED <<pc, fetch_ret>>
             ELSE IF r.status = 200 /\ r.is_json
             THEN /\ fetch_ret' = FetchResult(PyStr(r.text), NoError)
                  /\ pc' = "fetch_returned"
                  /\ UNCHANGED <<last_err, slept>>
             ELSE IF r.status = 200 /\ requests_build = "JSONDecodeError is a RequestException"
             THEN /\ last_err' = request_error(RequestException("JSONDecodeError", 16))
                  /\ slept' = slept + (attempt + 1)
                  /\ UNCHANGED <<pc, fetch_ret>>
             ELSE IF r.status = 200
             THEN /\ pc' = "fetch_raised"
                  /\ UNCHANGED <<last_err, fetch_ret, slept>>
             ELSE IF r.status = 404
             THEN /\ fetch_ret' = FetchResult(None, NOT_FOUND)
                  /\ pc' = "fetch_returned"
                  /\ UNCHANGED <<last_err, slept>>
             ELSE /\ last_err' = http_error(r)
                  /\ slept' = slept + (attempt + 1)
                  /\ UNCHANGED <<pc, fetch_ret>>
    /\ UNCHANGED <<requests_build, normVars, binsVars, mainVars, daoVars, appVars>>

\* after the loop: return None, last_err or "Unknown error"
FetchGiveUp ==
    /\ pc = "fetch_loop"
    /\ attempt = RETRIES
    /\ fetch_ret' = FetchResult(None, IF last_err.none THEN UNKNOWN_ERROR ELSE last_err)
    /\ pc' = "fetch_returned"
    /\ UNCHANGED <<requests_build, attempt, last_err, slept, responses,
                   normVars, binsVars, mainVars, daoVars, appVars>>

NextFetch == FetchAttempt \/ FetchGiveUp

SpecFetch == InitFetch /\ [][NextFetch]_vars

-----------------------------------------------------------------------------
(* Claims about the join and its report, under Spec                        *)

Joined == pc \in {"merged", "counted", "reported", "binned", "static_saved",
                   "folium_imported", "done"}
Reported == pc \in {"reported", "binned", "static_saved", "folium_imported", "done"}

\* the joined records of the g-th geometry record, and the value records
\* with its key
RowsOf(g) == { i \in 1..Len(merged) : merged[i].geometry = gdf[g].geometry }
ValueRecordsOf(key) == { j \in 1..Len(wc) : wc[j].key = key }
Unmatched == { j \in 1..Len(wc) : \A g \in 1..Len(gdf) : gdf[g].key # wc[j].key }
Max(S) == CHOOSE x \in S : \A y \in S : x >= y

\* C1: join completeness: the joined result has exactly as many records as
\* there are geometry records, whatever the value records are.
C1_JoinCompleteness == Joined => Len(merged) = Len(gdf)

\* C2: join determinism: when two or more value records have the same key,
\* the geometry with that key gets exactly one joined record, carrying the
\* value of the last such value record.
C2_LastValueWins ==
    Joined =>
        \A g \in 1..Len(gdf) :
            Cardinality(ValueRecordsOf(gdf[g].key)) >= 2
            => /\ Cardinality(RowsOf(g)) = 1
               /\ \A i \in RowsOf(g) :
                      merged[i].value = wc[Max(ValueRecordsOf(gdf[g].key))].value

\* C4 as stated: a joined record's value is absent exactly when no value
\* record shares its key.
C4_AbsentIffNoValueRecord ==
    Joined =>
        \A i \in 1..Len(merged) :
            merged[i].value.isna <=> ValueRecordsOf(merged[i].key) = {}

\* C4 amended: a joined record's value is absent only when no value record
\* shares its key or a value record with its key has an absent value; a
\* geometry whose key matches no value record has one joined record, with an
\* absent value, and a geometry whose key matches value records has a joined
\* record for each of them, carrying its value (absent if the cell failed
\* numeric coercion).
C4_AbsentIffNoneOrUnparsable ==
    Joined =>
        /\ \A i \in 1..Len(merged) :
              IF ValueRecordsOf(merged[i].key) = {}
              THEN merged[i].value.isna
              ELSE \E j \in ValueRecordsOf(merged[i].key) : wc[j].value = merged[i].value
        /\ \A g \in 1..Len(gdf) :
              IF ValueRecordsOf(gdf[g].key) = {}
              THEN Cardinality(RowsOf(g)) = 1
              ELSE \A j \in ValueRecordsOf(gdf[g].key) :
                      \E i \in RowsOf(g) : merged[i].value = wc[j].value

C4_Witness ==
    /\ Joined
    /\ \E i \in 1..Len(merged) :
          merged[i].value.isna /\ ValueRecordsOf(merged[i].key) # {}
    /\ \E i \in 1..Len(merged) :
          merged[i].value.isna /\ ValueRecordsOf(merged[i].key) = {}

\* the geometry records that lack a value, and the printed names line(s)
Lacking(g) == \E i \in RowsOf(g) : merged[i].value.isna
LackingInOrder ==
    LET rows == SelectSeq(gdf, LAMBDA r :
                    \E i \in 1..Len(merged) :
                        merged[i].geometry = r.geometry /\ merged[i].value.isna)
    IN  [i \in 1..Len(rows) |-> rows[i].geo_name]
LackingNames == { gdf[g].geo_name : g \in { h \in 1..Len(gdf) : Lacking(h) } }
NamesLines == SelectSeq(stdout, LAMBDA l : l.line = "names")

\* C9 as stated: the report shown enumerates every geometry region whose
\* joined value is absent, one entry per region, in geometry input order.
C9_ReportInGeometryOrder ==
    Reported =>
        IF LackingInOrder = <<>> THEN NamesLines = <<>>
        ELSE NamesLines = << [line |-> "names", text |-> str_join(SEP, LackingInOrder)] >>

\* C9 amended: the report shown lists the distinct display names of the
\* geometry regions whose joined value is absent, each name once, in
\* ascending code-point order, and nothing when there is none.
C9_ReportSortedDistinct ==
    Reported =>
        IF LackingNames = {} THEN NamesLines = <<>>
        ELSE \E f \in [1..Cardinality(LackingNames) -> LackingNames] :
                /\ \A i \in 1..(Len(f) - 1) : str_lt(f[i], f[i + 1])
                /\ NamesLines = << [line |-> "names", text |-> str_join(SEP, f)] >>

C9_Witness ==
    /\ Reported
    /\ missing_values = <<NAME_Offaly, NAME_Cork>>
    /\ Len(NamesLines) = 1
    /\ NamesLines[1].text = NAME_Cork \o SEP \o NAME_Offaly

\* C10: the output region set equals the geometry input set: every joined
\* record carries the key and display name of a geometry record, and a value
\* record whose key matches no geometry produces no joined record and no
\* entry in the mismatch report.
C10_RegionsAreTheGeometries ==
    /\ Joined =>
          /\ { <<merged[i].geo_name, merged[i].key, merged[i].geometry>> : i \in 1..Len(merged) }
             = { <<gdf[g].geo_name, gdf[g].key, gdf[g].geometry>> : g \in 1..Len(gdf) }
          /\ \A j \in Unmatched : \A i \in 1..Len(merged) : merged[i].key # wc[j].key
    /\ Reported =>
          /\ \A i \in 1..Len(missing_values) :
                \E g \in 1..Len(gdf) : gdf[g].geo_name = missing_values[i]
          /\ \A j \in Unmatched : \A i \in 1..Len(missing_values) :
                norm_county_name(missing_values[i]) # wc[j].key

C10_Witness ==
    /\ Reported
    /\ Unmatched # {}
    /\ Cardinality(Unmatched) < Len(wc)
    /\ missing_values # <<>>
    /\ Len(merged) > Len(missing_values)

\* the pairs (historical name, modern name) of the alias table
HistoricalPairs ==
    { <<NAME_Kings_County, NAME_Offaly>>, <<NAME_Queens_County, NAME_Laois>> }

\* C11: alias resolution: a value row named by a historical name has the key
\* of the geometry named by the modern name, and some joined record of that
\* geometry carries the row's value.
C11_AliasResolution ==
    Joined =>
        \A j \in 1..Len(wc), g \in 1..Len(gdf) :
            <<wc[j].county, gdf[g].geo_name>> \in HistoricalPairs
                => /\ wc[j].key = gdf[g].key
                   /\ \E i \in RowsOf(g) : merged[i].value = to_numeric(csv_rows[j].cell)

C11_Witness ==
    /\ Joined
    /\ \E j \in 1..Len(wc), g \in 1..Len(gdf) :
          /\ wc[j].county = NAME_Kings_County /\ gdf[g].geo_name = NAME_Offaly
          /\ ~wc[j].value.isna
    /\ \E j \in 1..Len(wc), g \in 1..Len(gdf) :
          /\ wc[j].county = NAME_Queens_County /\ gdf[g].geo_name = NAME_Laois
          /\ ~wc[j].value.isna

\* the header row has no column with this lower-cased name
CsvLacks(name) == \A i \in 1..Len(csv_columns) : lower(csv_columns[i]) # name
CsvSchemaMissing ==
    CsvLacks(STR_county) \/ (CsvLacks(STR_prosewords) /\ CsvLacks(STR_words))
GeoSchemaMissing == "NAME_1" \notin geo_columns

\* C13: a missing schema aborts the run: when the CSV lacks the county column
\* or both the ProseWords and Words columns, or the geometry lacks the name
\* field, main never gets past the loader that finds it, ends with ValueError,
\* and prints nothing and writes neither file.
C13_MissingSchemaAborts ==
    (CsvSchemaMissing \/ GeoSchemaMissing) =>
        /\ pc \in {"main_start", "wc_loaded", "raised"}
        /\ CsvSchemaMissing => pc \in {"main_start", "raised"}
        /\ pc = "raised" => raised = "ValueError"
        /\ merged = <<>> /\ stdout = <<>> /\ missing_values = <<>>
        /\ png = NoFile /\ html = NoFile

C13_Witness ==
    /\ pc = "raised" /\ raised = "ValueError"
    /\ ~CsvLacks(STR_county) /\ CsvLacks(STR_prosewords) /\ CsvLacks(STR_words)
    /\ csv_rows # <<>>

\* the number a cell of the inputs stands for, NaN for the cell that is none
CellValue(cell) ==
    IF cell = <<"7">> THEN Num(7)
    ELSE IF cell = <<"1", "2">> THEN Num(12)
    ELSE NaN

WcLoaded == pc # "main_start" /\ ~CsvSchemaMissing

\* C14: load_wordcounts returns one record per input row, in input order; a
\* row whose cell is not a number gets NaN, and every row has its own name,
\* key and number whatever the other rows hold.
C14_OneRecordPerRow ==
    WcLoaded =>
        /\ Len(wc) = Len(csv_rows)
        /\ \A i \in 1..Len(csv_rows) :
              /\ wc[i].county = csv_rows[i].county
              /\ wc[i].key = norm_county_name(csv_rows[i].county)
              /\ wc[i].value = CellValue(csv_rows[i].cell)

C14_Witness ==
    /\ WcLoaded
    /\ Len(wc) = 2
    /\ wc[1].value.isna /\ wc[2].value = Num(12)

\* the geometry records whose key no value row has
NoValueRow(g) == \A j \in 1..Len(wc) : wc[j].key # gdf[g].key

\* C15: absence is rendered as absence: a geometry whose key matches no value
\* row has one joined record, with NaN; it is in the mismatch report; and both
\* the static plot and the interactive style fill it with #f0f0f0, not with a
\* colour of the ramp.
C15_AbsenceRenderedAsAbsence ==
    Joined =>
        \A g \in 1..Len(gdf) :
            NoValueRow(g) =>
                /\ Cardinality(RowsOf(g)) = 1
                /\ \A i \in RowsOf(g) : merged[i].value.isna
                /\ Reported =>
                      /\ \E m \in 1..Len(missing_values) : missing_values[m] = gdf[g].geo_name
                      /\ \E n \in 1..Len(stdout) : stdout[n].line = "names"
                /\ png.written =>
                      \A i \in RowsOf(g) :
                          /\ png.patches[i].geometry = gdf[g].geometry
                          /\ png.patches[i].fill = [hex |-> "#f0f0f0"]
                /\ html.written =>
                      \A i \in RowsOf(g) :
                          /\ html.features[i].geometry = gdf[g].geometry
                          /\ html.features[i].fillColor = [hex |-> "#f0f0f0"]

\* an unmatched geometry next to a matched one whose value is the least, so
\* that the ramp has a colour for it
C15_Witness ==
    /\ pc = "done" /\ png.written /\ html.written
    /\ \E g \in 1..Len(gdf) : NoValueRow(g)
    /\ \E i \in 1..Len(merged) : ~merged[i].value.isna

\* C16: a missing folium is not fatal: when the import fails, the join report
\* has been printed and the PNG written, no HTML is written, the skip notice
\* is the last line printed, and main returns without an exception.
C16_MissingFoliumNonFatal ==
    folium = "ImportError" =>
        /\ pc = "done" /\ raised = ""
        /\ png.written /\ html = NoFile
        /\ \E n \in 1..Len(stdout) : stdout[n].line = "polygons_found"
        /\ missing_values # <<>> => \E n \in 1..Len(stdout) : stdout[n].line = "names"
        /\ \E n \in 1..Len(stdout) : stdout[n].line = "saved_static"
        /\ stdout[Len(stdout)].line = "folium_not_installed"

C16_Witness ==
    /\ folium = "ImportError"
    /\ pc = "done"
    /\ missing_values # <<>>

-----------------------------------------------------------------------------
(* Claims about make_bins, under SpecBins                                  *)

\* the numbers in a Series and how many entries are numbers
PresentNumbers(values) == { values[i].v : i \in { j \in 1..Len(values) : ~values[j].isna } }
PresentCount(values) == Cardinality({ j \in 1..Len(values) : ~values[j].isna })

Returned == pc = "bins_done"
DefaultStrategy == arg_mode = "quantile" /\ arg_k = N_QUANTILES

\* C5 as stated: with at least 3 distinct values the default strategy returns
\* the label "Quantiles" and a strictly increasing boundary sequence of
\* length at least 3.
C5_QuantilesAccepted ==
    (Returned /\ DefaultStrategy /\ Cardinality(PresentNumbers(arg_values)) >= 3)
    => /\ ret_bins.label = "Quantiles"
       /\ StrictlyIncreasing(ret_bins.num)
       /\ Len(ret_bins.num) >= 3

\* C5 amended: with at least 3 distinct values the default strategy returns a
\* strictly increasing boundary sequence of length at least 3, and the label
\* is "Quantiles" when there are at most 2 * N_QUANTILES present values.
C5_QuantilesAcceptedUpTo2k ==
    (Returned /\ DefaultStrategy /\ Cardinality(PresentNumbers(arg_values)) >= 3)
    => /\ ~ret_bins.none
       /\ StrictlyIncreasing(ret_bins.num)
       /\ Len(ret_bins.num) >= 3
       /\ (PresentCount(arg_values) <= 2 * N_QUANTILES => ret_bins.label = "Quantiles")

C5_Witness ==
    /\ Returned /\ DefaultStrategy
    /\ Cardinality(PresentNumbers(arg_values)) >= 3
    /\ PresentCount(arg_values) <= 2 * N_QUANTILES
    /\ Len(ret_bins.num) < N_QUANTILES + 1
    /\ ret_bins.label = "Quantiles"

\* C6 as stated: every non-null boundary sequence, for either strategy and
\* every k >= 1, is strictly increasing and has at least 3 boundaries.
C6_BinSetInvariant ==
    (Returned /\ ~ret_bins.none)
    => (StrictlyIncreasing(ret_bins.num) /\ Len(ret_bins.num) >= 3)

\* C6 amended: every non-null boundary sequence, for either strategy and
\* every k >= 2, is strictly increasing and has at least 3 boundaries.
C6_BinSetInvariantFromK2 ==
    (Returned /\ ~ret_bins.none /\ arg_k >= 2)
    => (StrictlyIncreasing(ret_bins.num) /\ Len(ret_bins.num) >= 3)

C6_Witness ==
    /\ Returned /\ ~ret_bins.none /\ arg_k = 2
    /\ Cardinality(PresentNumbers(arg_values)) >= 2
    /\ ret_bins.label = "Linear"
    /\ Len(ret_bins.num) = 3

\* C7: when all present values equal one number m, the quantile strategy
\* returns the label "Linear" and the boundaries [m-1, m, m+1].
C7_DegenerateFallback ==
    \A m \in PresentNumbers(arg_values) :
        (Returned /\ arg_mode = "quantile" /\ PresentNumbers(arg_values) = {m})
        => /\ ~ret_bins.none
           /\ ret_bins.label = "Linear"
           /\ Len(ret_bins.num) = 3
           /\ ret_bins.num[1] = ret_bins.den * (m - 1)
           /\ ret_bins.num[2] = ret_bins.den * m
           /\ ret_bins.num[3] = ret_bins.den * (m + 1)
           /\ ret_bins.den > 0

C7_Witness ==
    /\ Returned /\ arg_mode = "quantile" /\ arg_k = N_QUANTILES
    /\ PresentNumbers(arg_values) = {2}
    /\ PresentCount(arg_values) = 5
    /\ PresentCount(arg_values) < Len(arg_values)
    /\ ret_bins.label = "Linear"

\* C8: with no present value (an empty Series, or every entry NaN) make_bins
\* returns None for the boundaries and None for the label, for either
\* strategy and any k.
C8_EmptyInput ==
    (Returned /\ PresentCount(arg_values) = 0) => ret_bins = NoBins

C8_Witness ==
    /\ Returned /\ Len(arg_values) > 0 /\ PresentCount(arg_values) = 0
    /\ arg_mode = "linear" /\ arg_k > 1
    /\ ret_bins.none

\* C23: every non-null boundary sequence covers the data: for either
\* strategy and every k >= 1 the first boundary is at most the least present
\* value, the last is at least the largest, and every present value lies
\* between two consecutive boundaries.
C23_BinsCoverData ==
    (Returned /\ ~ret_bins.none) =>
        /\ ret_bins.den > 0
        /\ \A m \in PresentNumbers(arg_values) :
              /\ ret_bins.num[1] <= ret_bins.den * m
              /\ ret_bins.den * m <= ret_bins.num[Len(ret_bins.num)]
              /\ \E i \in 1..(Len(ret_bins.num) - 1) :
                    /\ ret_bins.num[i] <= ret_bins.den * m
                    /\ ret_bins.den * m <= ret_bins.num[i + 1]

\* quantile boundaries of three distinct numbers next to a NaN, whose ends
\* are the least and the largest number
C23_Witness ==
    /\ Returned /\ ~ret_bins.none
    /\ ret_bins.label = "Quantiles"
    /\ PresentNumbers(arg_values) = {1, 2, 4}
    /\ PresentCount(arg_values) < Len(arg_values)
    /\ ret_bins.num[1] = ret_bins.den * 1
    /\ ret_bins.num[Len(ret_bins.num)] = ret_bins.den * 4

\* C3: the normalizer is idempotent: normalizing a normalized key returns it
\* unchanged, for every input string.
C3_Idempotent == pc = "norm_twice" => ret_s2 = ret_s

\* C12: the join key is insensitive to spelling variants: two names that
\* differ only in letter case, surrounding whitespace, a leading "County "
\* prefix or the kind of apostrophe and dash normalize to the same key
\* (stated for the names that are not blank).
C12_VariantInsensitive ==
    (pc = "norm_variant" /\ strip(arg_s) # <<>>) => ret_variant = ret_s

\* C12, restricted to the spelling variants other than the prefix
C12_NonPrefixVariantInsensitive ==
    (pc = "norm_variant" /\ arg_variant \notin PrefixVariants(arg_s))
        => ret_variant = ret_s

-----------------------------------------------------------------------------
(* Claims about UserDAO, under SpecDAO (on a database that has the table)  *)

\* the row a User is stored as
StoredRow(user) ==
    [name |-> user.name, email |-> user.email, active |-> IF user.active THEN 1 ELSE 0]

\* C17: read-your-writes: get_by_id(id) returns a user exactly when a row with
\* that id exists, and then the user has that id and the name, email and
\* active last written for the id by create or update; else it returns None.
C17_ReadYourWrites ==
    (dao_call.op = "get_by_id" /\ dao_ret.exc = "") =>
        LET id == dao_call.user_id
        IN  /\ dao_ret.users # <<>> <=> id \in DOMAIN users
            /\ id \in DOMAIN written => dao_ret.users = << written[id] >>
            /\ id \notin DOMAIN written => dao_ret.users = <<>>

\* a name with an apostrophe and a null email read back, after a delete
C17_Witness ==
    /\ dao_call.op = "get_by_id" /\ dao_ret.exc = ""
    /\ Len(dao_ret.users) = 1
    /\ dao_ret.users[1].name = NAME_Mary
    /\ dao_ret.users[1].email.none
    /\ dao_ret.users[1].active
    /\ Len(created) > Cardinality(DOMAIN users)

\* C18: every create returns a positive id larger than every id an earlier
\* create returned, also after deletes; get_all lists every stored user once,
\* in ascending id order.
C18_InsertionOrder ==
    /\ \A i \in 1..Len(created) : created[i] > 0
    /\ \A i, j \in 1..Len(created) : i < j => created[i] < created[j]
    /\ (dao_call.op = "get_all" /\ dao_ret.exc = "") =>
          /\ { dao_ret.users[i].id.n : i \in 1..Len(dao_ret.users) } = DOMAIN users
          /\ \A i, j \in 1..Len(dao_ret.users) :
                i < j => dao_ret.users[i].id.n < dao_ret.users[j].id.n
          /\ \A i \in 1..Len(dao_ret.users) :
                /\ ~dao_ret.users[i].id.none
                /\ StoredRow(dao_ret.users[i]) = users[dao_ret.users[i].id.n]

\* three creates, the second user deleted, and get_all lists the two others
C18_Witness ==
    /\ dao_call.op = "get_all" /\ dao_ret.exc = ""
    /\ created = <<1, 2, 3>>
    /\ DOMAIN users = {1, 3}
    /\ Len(dao_ret.users) = 2

\* C19: update returns True exactly when a row with user.id exists, and then
\* that row alone changes, to the given name, email and active; with no such
\* row it returns False, with user.id None it raises ValueError, and in both
\* cases the table is unchanged.
C19_Update ==
    [][ (dao_call'.op = "update" /\ dao_ret'.exc # "OperationalError") =>
            LET user == dao_call'.user
            IN  IF user.id.none
                THEN dao_ret'.exc = "ValueError" /\ users' = users
                ELSE /\ dao_ret'.exc = ""
                     /\ dao_ret'.ok <=> user.id.n \in DOMAIN users
                     /\ DOMAIN users' = DOMAIN users
                     /\ \A x \in DOMAIN users :
                           users'[x] = IF x = user.id.n THEN StoredRow(user) ELSE users[x]
      ]_vars

\* an update that found its row, in a table with another row
C19_Witness ==
    /\ dao_call.op = "update" /\ dao_ret.exc = "" /\ dao_ret.ok
    /\ Cardinality(DOMAIN users) >= 2
    /\ users[dao_call.user.id.n] = StoredRow(dao_call.user)
    /\ \E x \in DOMAIN users : users[x] # StoredRow(dao_call.user)

\* C20: delete returns True exactly when a row with the id existed, and then
\* removes that row and no other; for an id with no row (the same id again) it
\* returns False and the table is unchanged.
C20_Delete ==
    [][ (dao_call'.op = "delete" /\ dao_ret'.exc = "") =>
            LET id == dao_call'.user_id
            IN  /\ dao_ret'.ok <=> id \in DOMAIN users
                /\ DOMAIN users' = DOMAIN users \ {id}
                /\ \A x \in DOMAIN users' : users'[x] = users[x]
      ]_vars

\* a delete that found its row, in a table where other rows stay
C20_Witness ==
    /\ dao_call.op = "delete" /\ dao_ret.exc = "" /\ dao_ret.ok
    /\ dao_call.user_id \notin DOMAIN users
    /\ Cardinality(DOMAIN users) >= 2

\* C21: create_table is safe to call repeatedly: at any point of a sequence
\* of DAO calls it raises nothing, the table is there afterwards, and the
\* stored rows and the ids given out so far are what they were.
C21_CreateTableIdempotent ==
    [][ dao_call'.op = "create_table" =>
            /\ dao_ret'.exc = ""
            /\ table_exists'
            /\ users' = users
            /\ sqlite_sequence' = sqlite_sequence
      ]_vars

\* create_table called on a table that holds rows and has lost one
C21_Witness ==
    /\ dao_call.op = "create_table" /\ dao_ret.exc = ""
    /\ Cardinality(DOMAIN users) >= 2
    /\ Len(created) > Cardinality(DOMAIN users)

-----------------------------------------------------------------------------
(* Claims about fetch_prose_json, under SpecFetch                          *)

IsStatus(r, status) == r.exception = "" /\ r.status = status
BadBody(r) == IsStatus(r, 200) /\ ~r.is_json

\* the message the last attempt stands for: the status and the head of the
\* body of a response, the text of an exception
MessageOf(r) ==
    IF r.exception # "" THEN ErrorMessage("Request error", 0, r.text, r.len)
    ELSE ErrorMessage("HTTP", r.status, r.text, IF r.len < 200 THEN r.len ELSE 200)

\* the contract of fetch_prose_json over the attempts made so far
FetchContract ==
    /\ attempt <= 3 /\ Len(responses) = attempt
    /\ pc # "fetch_raised"
    /\ \A i \in 1..Len(responses) :
          /\ IsStatus(responses[i], 200) =>
                /\ i = Len(responses) /\ pc = "fetch_returned"
                /\ fetch_ret = [returned |-> TRUE, json |-> PyStr(responses[i].text),
                                error |-> NoError]
          /\ IsStatus(responses[i], 404) =>
                /\ i = Len(responses) /\ pc = "fetch_returned"
                /\ fetch_ret.json = None
                /\ fetch_ret.error.prefix = "404 Not Found"
    /\ (/\ pc = "fetch_returned"
        /\ ~IsStatus(responses[Len(responses)], 200)
        /\ ~IsStatus(responses[Len(responses)], 404)) =>
          /\ attempt = 3
          /\ fetch_ret.json = None
          /\ fetch_ret.error = MessageOf(responses[Len(responses)])

\* C22: fetch_prose_json ends after at most RETRIES attempts: a 200 response
\* returns (payload, None) and a 404 response (None, "404 Not Found"), each at
\* once; any other status or exception is retried, and after the third failed
\* attempt it returns (None, the message of the last attempt).
C22_FetchContract == FetchContract

\* C22 for the runs in which every 200 response has a JSON body
C22_FetchContractJsonBodies ==
    (\A i \in 1..Len(responses) : ~BadBody(responses[i])) => FetchContract

\* whatever requests.get gives, a call is over after RETRIES passes of the loop
C22_AtMostThreeAttempts ==
    /\ attempt <= 3
    /\ (attempt = 3 /\ pc = "fetch_loop") => ENABLED FetchGiveUp

-----------------------------------------------------------------------------
(* Claims about toggle_active, under SpecToggle                            *)

BothDone == \A r \in Requests : req_pc[r] = "done"
UserExisted == original # <<>>

\* C24: no toggle is lost: when both toggle requests for an existing user
\* are done, in whatever order their get_by_id and update calls ran, the
\* user's active is what it was at first, and so are its name and email.
C24_NoToggleLost ==
    (UserExisted /\ BothDone) =>
        /\ users[toggle_id].active = original[1].row.active
        /\ users[toggle_id].name = original[1].row.name
        /\ users[toggle_id].email = original[1].row.email

\* the part of C24 about the name and the email, at every point of the runs
C24_NameEmailUnchanged ==
    UserExisted =>
        /\ users[toggle_id].name = original[1].row.name
        /\ users[toggle_id].email = original[1].row.email

====
